---- MODULE Spec2Model ----
(***************************************************************************)
(* MS5351MClockGenerator (src/SoC_name_here.py, lines 35-115): a driver    *)
(* that programs a three-output clock generator over I2C and records the   *)
(* frequency requested for each output.                                    *)
(*                                                                         *)
(* Every thread that calls into the driver has a program counter, a stack  *)
(* of return labels and the locals of the methods it is in.  The labels    *)
(* are source lines: "setup58" is the statement of line 58, "sf73" the     *)
(* statement of set_frequency at line 73, "wr113" the statement of         *)
(* _write_register at line 113.  The I2C transport (self.i2c) is outside   *)
(* the repository: its write either returns or raises, nondeterministi-    *)
(* cally.  The source has no try/except, so an exception unwinds the whole *)
(* call stack of the thread.                                               *)
(*                                                                         *)
(* Frequencies are integers in Hz.  They exceed 2^31, so a frequency is    *)
(* kept in two limbs, [khz, hz] standing for khz*1000 + hz with hz < 1000. *)
(***************************************************************************)
EXTENDS Integers, Sequences, FiniteSets, TLC

VARIABLES
    threads,             \* the threads that call into the driver instance
    phase,               \* "new", "setup", "ready" or "failed" (constructor raised)
    pc,                  \* pc[t]: statement thread t executes next, "idle" outside the driver
    stack,               \* stack[t]: return labels of the calls t is in
    output_index,        \* set_frequency's argument, per thread
    frequency,           \* set_frequency's argument, per thread
    register_value,      \* set_frequency's local (line 77), per thread
    register,            \* _write_register's argument, per thread
    value,               \* _write_register's argument, per thread
    data,                \* _write_register's local (line 113), per thread
    output_frequencies,  \* self.output_frequencies
    bus,                 \* history: every transport write attempted, in order
    calls,               \* history: every set_frequency call that ended, in order
    entry,               \* history: entry[t] is the driver state when t's call began
    err                  \* err[t]: the exception t's last call raised, "none" if it returned

vars == <<threads, phase, pc, stack, output_index, frequency, register_value,
          register, value, data, output_frequencies, bus, calls, entry, err>>

(***************************************************************************)
(* Bounds                                                                  *)
(***************************************************************************)
\* set_frequency calls made by the callers after construction
MaxCalls == 2
\* largest value handed to _write_register when it is exercised on its own
MaxWireValue == 65540

(***************************************************************************)
(* Program constants                                                       *)
(***************************************************************************)
Main == "main"
Other == "other"
Threads == {Main, Other}
Channels == {0, 1, 2}
DefaultSlaveAddress == 96
ResetRegister == 0
ResetValue == 1
OutputRegisterBase == 16

Freq(k, h) == [khz |-> k, hz |-> h]
MHz(m) == Freq(m * 1000, 0)
Zero == Freq(0, 0)
\* the attribute does not exist before line 49 runs
Unassigned == Freq(-1, 0)

\* arguments the callers pass
ChannelInputs == {-1, 0, 1, 2, 3}
FreqInputs == {Zero, Freq(999, 999), MHz(27), MHz(300), MHz(65535), MHz(65836)}
RegisterInputs == {0, 16, 255}

(***************************************************************************)
(* Pure functions                                                          *)
(***************************************************************************)
RECURSIVE BitAnd(_, _)
\* Python's x & y on non-negative integers
BitAnd(x, y) ==
    IF x = 0 \/ y = 0 THEN 0
    ELSE (x % 2) * (y % 2) + 2 * BitAnd(x \div 2, y \div 2)

\* Python's x >> n on non-negative integers
ShiftRight(x, n) == x \div (2 ^ n)

\* rounds to the nearest megahertz instead of truncating
calculate_register_value_rounded(f) == (f.khz + 500) \div 1000

\* int(frequency / 1e6): khz*1000 + hz over 10^6, truncated
calculate_register_value(f) == f.khz \div 1000

\* high byte first
PayloadBigEndian(r, v) == <<r, BitAnd(ShiftRight(v, 8), 255), BitAnd(v, 255)>>

\* the high byte is dropped
PayloadLowByteOnly(r, v) == <<r, BitAnd(v, 255), 0>>

\* line 113: [register, value & 0xFF, (value >> 8) & 0xFF]
Payload(r, v) == <<r, BitAnd(v, 255), BitAnd(ShiftRight(v, 8), 255)>>

\* one address per channel instead of two
RegisterAddressPacked(c) == OutputRegisterBase + c

\* line 80
RegisterAddress(c) == OutputRegisterBase + c * 2

\* records what the register holds instead of what was asked for
RecordedQuantized(t) == MHz(register_value[t])

\* line 84: the value recorded for the channel
Recorded(t) == frequency[t]

\* accepts one index too many
ValidIndexOffByOne(c) == c \in 0..3

\* line 73
ValidIndex(c) == c \in Channels

(***************************************************************************)
(* Control flow helpers                                                    *)
(***************************************************************************)
Push(t, label) == [stack EXCEPT ![t] = Append(@, label)]
Top(t) == stack[t][Len(stack[t])]
Pop(t) == [stack EXCEPT ![t] = SubSeq(@, 1, Len(@) - 1)]

InSetFrequency(t) ==
    \/ pc[t] \in {"sf73", "sf77", "sf80", "sf84"}
    \/ \E i \in 1..Len(stack[t]) : stack[t][i] = "sf84"

CallRecord(t, res) ==
    [thread |-> t, channel |-> output_index[t], freq |-> frequency[t], result |-> res]

\* an exception leaves every frame of the thread: nothing in the source catches it
Raise(t, e) ==
    /\ pc' = [pc EXCEPT ![t] = "idle"]
    /\ stack' = [stack EXCEPT ![t] = <<>>]
    /\ err' = [err EXCEPT ![t] = e]
    /\ calls' = IF InSetFrequency(t) THEN Append(calls, CallRecord(t, e)) ELSE calls
    /\ phase' = IF phase = "setup" THEN "failed" ELSE phase

\* a call of set_frequency(c, f) by t that returns to label ret
CallSetFrequency(t, c, f, ret) ==
    /\ output_index' = [output_index EXCEPT ![t] = c]
    /\ frequency' = [frequency EXCEPT ![t] = f]
    /\ stack' = Push(t, ret)
    /\ pc' = [pc EXCEPT ![t] = "sf73"]
    /\ entry' = [entry EXCEPT ![t] = [freqs |-> output_frequencies, nbus |-> Len(bus)]]

\* a call of _write_register(r, v) by t that returns to label ret
CallWriteRegister(t, r, v, ret) ==
    /\ register' = [register EXCEPT ![t] = r]
    /\ value' = [value EXCEPT ![t] = v]
    /\ stack' = Push(t, ret)
    /\ pc' = [pc EXCEPT ![t] = "wr113"]

(***************************************************************************)
(* __init__ and setup_clock_generator                                      *)
(***************************************************************************)
\* lines 45-50
init_body(t) ==
    /\ pc[t] = "init"
    /\ output_frequencies' = [c \in Channels |-> Zero]
    /\ phase' = "setup"
    /\ pc' = [pc EXCEPT ![t] = "setup58"]
    /\ UNCHANGED <<threads, stack, output_index, frequency, register_value,
                   register, value, data, bus, calls, entry, err>>

\* line 58
setup_reset(t) ==
    /\ pc[t] = "setup58"
    /\ CallWriteRegister(t, ResetRegister, ResetValue, "setup61")
    /\ UNCHANGED <<threads, phase, output_index, frequency, register_value,
                   data, output_frequencies, bus, calls, entry, err>>

SetupCall(t, at, c, f, ret) ==
    /\ pc[t] = at
    /\ CallSetFrequency(t, c, f, ret)
    /\ UNCHANGED <<threads, phase, register_value, register, value, data,
                   output_frequencies, bus, calls, err>>

\* line 61
setup_output0(t) == SetupCall(t, "setup61", 0, MHz(50), "setup62")
\* line 62
setup_output1(t) == SetupCall(t, "setup62", 1, MHz(100), "setup63")
\* line 63
setup_output2(t) == SetupCall(t, "setup63", 2, MHz(200), "setup_ret")

\* setup_clock_generator and __init__ return
setup_return(t) ==
    /\ pc[t] = "setup_ret"
    /\ phase' = "ready"
    /\ pc' = [pc EXCEPT ![t] = Top(t)]
    /\ stack' = Pop(t)
    /\ UNCHANGED <<threads, output_index, frequency, register_value, register,
                   value, data, output_frequencies, bus, calls, entry, err>>

(***************************************************************************)
(* set_frequency                                                           *)
(***************************************************************************)
\* a caller invokes set_frequency(c, f) on the constructed driver
call_set_frequency(t) ==
    /\ phase = "ready"
    /\ t \in threads
    /\ pc[t] = "idle"
    /\ Cardinality({u \in Threads : pc[u] # "idle"}) + Len(calls) < 3 + MaxCalls
    /\ \E c \in ChannelInputs, f \in FreqInputs : CallSetFrequency(t, c, f, "idle")
    /\ err' = [err EXCEPT ![t] = "none"]
    /\ UNCHANGED <<threads, phase, register_value, register, value, data,
                   output_frequencies, bus, calls>>

\* lines 73-74
set_frequency_check(t) ==
    /\ pc[t] = "sf73"
    /\ IF ValidIndex(output_index[t])
       THEN /\ pc' = [pc EXCEPT ![t] = "sf77"]
            /\ UNCHANGED <<stack, err, calls, phase>>
       ELSE Raise(t, "ValueError")
    /\ UNCHANGED <<threads, output_index, frequency, register_value, register,
                   value, data, output_frequencies, bus, entry>>

\* line 77
set_frequency_calc(t) ==
    /\ pc[t] = "sf77"
    /\ register_value' = [register_value EXCEPT ![t] = calculate_register_value(frequency[t])]
    /\ pc' = [pc EXCEPT ![t] = "sf80"]
    /\ UNCHANGED <<threads, phase, stack, output_index, frequency, register,
                   value, data, output_frequencies, bus, calls, entry, err>>

\* records the frequency before the write instead of after it
set_frequency_write_recording_first(t) ==
    /\ pc[t] = "sf80"
    /\ CallWriteRegister(t, RegisterAddress(output_index[t]), register_value[t], "sf84")
    /\ output_frequencies' = [output_frequencies EXCEPT ![output_index[t]] = Recorded(t)]
    /\ UNCHANGED <<threads, phase, output_index, frequency, register_value,
                   data, bus, calls, entry, err>>

\* lines 80-81
set_frequency_write(t) ==
    /\ pc[t] = "sf80"
    /\ CallWriteRegister(t, RegisterAddress(output_index[t]), register_value[t], "sf84")
    /\ UNCHANGED <<threads, phase, output_index, frequency, register_value,
                   data, output_frequencies, bus, calls, entry, err>>

\* line 84, and the return
set_frequency_store(t) ==
    /\ pc[t] = "sf84"
    /\ output_frequencies' = [output_frequencies EXCEPT ![output_index[t]] = Recorded(t)]
    /\ calls' = Append(calls, CallRecord(t, "ok"))
    /\ pc' = [pc EXCEPT ![t] = Top(t)]
    /\ stack' = Pop(t)
    /\ UNCHANGED <<threads, phase, output_index, frequency, register_value,
                   register, value, data, bus, entry, err>>

(***************************************************************************)
(* _write_register                                                         *)
(***************************************************************************)
\* line 113
write_register_data(t) ==
    /\ pc[t] = "wr113"
    /\ data' = [data EXCEPT ![t] = Payload(register[t], value[t])]
    /\ pc' = [pc EXCEPT ![t] = "wr114"]
    /\ UNCHANGED <<threads, phase, stack, output_index, frequency, register_value,
                   register, value, output_frequencies, bus, calls, entry, err>>

BusRecord(t, ok) ==
    [slave |-> DefaultSlaveAddress, data |-> data[t], ok |-> ok,
     thread |-> t,
     channel |-> IF InSetFrequency(t) THEN output_index[t] ELSE -1,
     freq |-> IF InSetFrequency(t) THEN frequency[t] ELSE Unassigned]

\* a transport failure is swallowed and the caller carries on
write_register_i2c_swallowing(t) ==
    /\ pc[t] = "wr114"
    /\ \E ok \in BOOLEAN : bus' = Append(bus, BusRecord(t, ok))
    /\ pc' = [pc EXCEPT ![t] = "wr115"]
    /\ UNCHANGED <<threads, phase, stack, output_index, frequency, register_value,
                   register, value, data, output_frequencies, calls, entry, err>>

\* line 114: self.i2c.write(self.slave_address, data) returns or raises
write_register_i2c(t) ==
    /\ pc[t] = "wr114"
    /\ \E ok \in BOOLEAN :
         /\ bus' = Append(bus, BusRecord(t, ok))
         /\ IF ok
            THEN /\ pc' = [pc EXCEPT ![t] = "wr115"]
                 /\ UNCHANGED <<stack, err, calls, phase>>
            ELSE Raise(t, "TransportError")
    /\ UNCHANGED <<threads, output_index, frequency, register_value, register,
                   value, data, output_frequencies, entry>>

\* line 115, and the return
write_register_sleep(t) ==
    /\ pc[t] = "wr115"
    /\ pc' = [pc EXCEPT ![t] = Top(t)]
    /\ stack' = Pop(t)
    /\ UNCHANGED <<threads, phase, output_index, frequency, register_value,
                   register, value, data, output_frequencies, bus, calls, entry, err>>

(***************************************************************************)
(* Specifications                                                          *)
(***************************************************************************)
InitLocals ==
    /\ output_index = [t \in Threads |-> 0]
    /\ frequency = [t \in Threads |-> Zero]
    /\ register_value = [t \in Threads |-> 0]
    /\ data = [t \in Threads |-> <<>>]
    /\ bus = <<>>
    /\ calls = <<>>
    /\ entry = [t \in Threads |-> [freqs |-> [c \in Channels |-> Unassigned], nbus |-> 0]]
    /\ err = [t \in Threads |-> "none"]

\* Main is about to run __init__; afterwards the threads in `threads` call in
InitWith(callers) ==
    /\ threads = callers
    /\ phase = "new"
    /\ pc = [t \in Threads |-> IF t = Main THEN "init" ELSE "idle"]
    /\ stack = [t \in Threads |-> IF t = Main THEN <<"idle">> ELSE <<>>]
    /\ register = [t \in Threads |-> 0]
    /\ value = [t \in Threads |-> 0]
    /\ output_frequencies = [c \in Channels |-> Unassigned]
    /\ InitLocals

Init == InitWith({Main})

InitConcurrent == InitWith({Main, Other})

\* Main calls _write_register(r, v) on a constructed driver
InitWire ==
    /\ threads = {Main}
    /\ phase = "ready"
    /\ pc = [t \in Threads |-> IF t = Main THEN "wr113" ELSE "idle"]
    /\ stack = [t \in Threads |-> IF t = Main THEN <<"idle">> ELSE <<>>]
    /\ \E r \in RegisterInputs, v \in 0..MaxWireValue :
         /\ register = [t \in Threads |-> IF t = Main THEN r ELSE 0]
         /\ value = [t \in Threads |-> IF t = Main THEN v ELSE 0]
    /\ output_frequencies = [c \in Channels |-> Zero]
    /\ InitLocals

Next ==
    \E t \in Threads :
        \/ init_body(t)
        \/ setup_reset(t)
        \/ setup_output0(t)
        \/ setup_output1(t)
        \/ setup_output2(t)
        \/ setup_return(t)
        \/ call_set_frequency(t)
        \/ set_frequency_check(t)
        \/ set_frequency_calc(t)
        \/ set_frequency_write(t)
        \/ set_frequency_store(t)
        \/ write_register_data(t)
        \/ write_register_i2c(t)
        \/ write_register_sleep(t)

NextWire ==
    \E t \in Threads :
        \/ write_register_data(t)
        \/ write_register_i2c(t)
        \/ write_register_sleep(t)

Spec == Init /\ [][Next]_vars

SpecConcurrent == InitConcurrent /\ [][Next]_vars

SpecWire == InitWire /\ [][NextWire]_vars

(***************************************************************************)
(* Vocabulary of the properties                                            *)
(***************************************************************************)
Quiescent == \A t \in Threads : pc[t] = "idle"
Constructed == phase \in {"ready", "failed"}

Last(S) == CHOOSE i \in S : \A j \in S : j <= i

\* the 16-bit value a payload carries, low byte first
Carried(d) == d[2] + 256 * d[3]

\* m is floor(f / 1_000_000), f = khz*1000 + hz with 0 <= hz < 1000
IsFloorMHz(m, f) == m * 1000 <= f.khz /\ f.khz < (m + 1) * 1000

Min(a, b) == IF a <= b THEN a ELSE b

ReturnedCalls(c) ==
    {i \in 1..Len(calls) : calls[i].channel = c /\ calls[i].result = "ok"}
AttemptedWrites(c) == {i \in 1..Len(bus) : bus[i].channel = c}
AcceptedWrites(c) == {i \in AttemptedWrites(c) : bus[i].ok}

LastRequested(c) ==
    IF ReturnedCalls(c) = {} THEN Zero ELSE calls[Last(ReturnedCalls(c))].freq
LastAttempted(c) ==
    IF AttemptedWrites(c) = {} THEN Zero ELSE bus[Last(AttemptedWrites(c))].freq
LastAccepted(c) ==
    IF AcceptedWrites(c) = {} THEN Zero ELSE bus[Last(AcceptedWrites(c))].freq

\* t has made a set_frequency call
Called(t) == entry[t].freqs[0] # Unassigned

BringUpPayloads == << <<0, 1, 0>>, <<16, 50, 0>>, <<18, 100, 0>>, <<20, 200, 0>> >>
BringUpFrequencies == [c \in Channels |-> IF c = 0 THEN MHz(50) ELSE IF c = 1 THEN MHz(100) ELSE MHz(200)]

(***************************************************************************)
(* C1: once the constructor has ended and no call is in progress, the      *)
(* frequency recorded for each channel is the frequency argument of the    *)
(* last set_frequency call for that channel that returned (0 if none did), *)
(* the requested value and not the register's; and a call for one channel  *)
(* never changes what is recorded for another.                             *)
(***************************************************************************)
C1_LastWriteWins ==
    /\ (Constructed /\ Quiescent) =>
          \A c \in Channels : output_frequencies[c] = LastRequested(c)
    /\ \A t \in threads : Called(t) =>
          \A d \in Channels \ {output_index[t]} :
              output_frequencies[d] = entry[t].freqs[d]

\* two calls for channel 0 returned, and the second, sub-megahertz, value is recorded
C1_Witness ==
    /\ phase = "ready" /\ Quiescent /\ Len(calls) = 5
    /\ calls[4] = [thread |-> Main, channel |-> 0, freq |-> MHz(27), result |-> "ok"]
    /\ calls[5] = [thread |-> Main, channel |-> 0, freq |-> Freq(999, 999), result |-> "ok"]
    /\ output_frequencies[0] = Freq(999, 999)
    /\ output_frequencies[1] = MHz(100)

(***************************************************************************)
(* C2: a set_frequency call whose channel is outside {0,1,2} raises the    *)
(* invalid-index ValueError, attempts no bus write and leaves the three    *)
(* recorded frequencies as they were.                                      *)
(***************************************************************************)
C2_InvalidChannel ==
    \A t \in threads : (Called(t) /\ output_index[t] \notin {0, 1, 2}) =>
        /\ pc[t] \in {"sf73", "idle"}
        /\ pc[t] = "idle" => err[t] = "ValueError"
        /\ Len(bus) = entry[t].nbus
        /\ output_frequencies = entry[t].freqs

\* a call with channel 3 has raised
C2_Witness ==
    /\ pc[Main] = "idle" /\ output_index[Main] = 3 /\ err[Main] = "ValueError"
    /\ Len(calls) = 4 /\ calls[4].result = "ValueError" /\ Len(bus) = 4

C6_Payload ==
    /\ Len(bus) <= 1
    /\ (pc[Main] \in {"wr115", "idle"}) => Len(bus) = 1
    /\ \A i \in 1..Len(bus) :
          LET d == bus[i].data
              v == value[bus[i].thread]
          IN /\ Len(d) = 3
             /\ bus[i].slave = DefaultSlaveAddress
             /\ d[1] = register[bus[i].thread]
             /\ \A k \in 1..3 : d[k] \in 0..255
             /\ d[2] = v % 256
             /\ d[3] = (v \div 256) % 256
             /\ v <= 65535 => Carried(d) = v
             /\ (v = 300 /\ d[1] = 16) => d = <<16, 44, 1>>

\* 300 has been written to register 0x10
C6_Witness ==
    /\ Len(bus) = 1 /\ value[Main] = 300 /\ register[Main] = 16
    /\ bus[1].data = <<16, 44, 1>> /\ bus[1].ok /\ pc[Main] = "idle"

(***************************************************************************)
(* C7 as stated: the value set_frequency writes for f is                   *)
(* min(floor(f / 1_000_000), 65535): clamped, not wrapped.                 *)
(***************************************************************************)
C7_Clamped ==
    \A i \in 1..Len(bus) : bus[i].channel \in Channels =>
        \E m \in 0..65535 :
            /\ m = Carried(bus[i].data)
            /\ \/ IsFloorMHz(m, bus[i].freq)
               \/ m = 65535 /\ bus[i].freq.khz >= 65535000

(***************************************************************************)
(* C7 amended: the register value set_frequency computes for f is          *)
(* floor(f / 1_000_000), unclamped, and the 16-bit value it writes is that *)
(* value modulo 65536: 50 for 50_000_000, 27 for 27_000_000, 0 for         *)
(* 999_999, and 300 for 65_836_000_000.                                    *)
(***************************************************************************)
C7_FloorThenWrap ==
    /\ \A t \in threads : pc[t] \in {"sf80", "sf84", "wr113", "wr114", "wr115"} =>
          IsFloorMHz(register_value[t], frequency[t])
    /\ \A i \in 1..Len(bus) : bus[i].channel \in Channels =>
          LET w == Carried(bus[i].data)
              f == bus[i].freq
          IN /\ w \in 0..65535
             /\ \E q \in 0..1 : IsFloorMHz(w + 65536 * q, f)
             /\ f = MHz(50) => w = 50
             /\ f = MHz(27) => w = 27
             /\ f = Freq(999, 999) => w = 0
             /\ f = MHz(65535) => w = 65535
             /\ f = MHz(65836) => w = 300

\* 65_836 MHz has been written as 300, and 999_999 Hz as 0
C7_Witness ==
    /\ Len(bus) = 6
    /\ bus[5].freq = MHz(65836) /\ Carried(bus[5].data) = 300
    /\ bus[6].freq = Freq(999, 999) /\ Carried(bus[6].data) = 0

(***************************************************************************)
(* C8 as stated: the frequency recorded for a channel is the last one the  *)
(* driver attempted to write for it, accepted by the transport or not      *)
(* (0 if none was attempted).  Read in the claim's favour: only on the     *)
(* constructed driver and only while no call is in progress.               *)
(***************************************************************************)
C8_LastAttempted ==
    (phase = "ready" /\ Quiescent) =>
        \A c \in Channels : output_frequencies[c] = LastAttempted(c)

(***************************************************************************)
(* C8 amended: when no call is in progress, the frequency recorded for a   *)
(* channel is the last one whose write the transport accepted (0 if none   *)
(* was accepted); a write the transport refused leaves no trace.           *)
(***************************************************************************)
C8_LastAccepted ==
    (Constructed /\ Quiescent) =>
        \A c \in Channels : output_frequencies[c] = LastAccepted(c)

\* the last write attempted for channel 2 was refused and the one before it is recorded
C8_Witness ==
    /\ phase = "ready" /\ Quiescent /\ Len(bus) = 6
    /\ bus[5].channel = 2 /\ bus[5].ok /\ bus[5].freq = MHz(300)
    /\ bus[6].channel = 2 /\ ~bus[6].ok /\ bus[6].freq = MHz(27)
    /\ output_frequencies[2] = MHz(300)

(***************************************************************************)
(* C9: with two threads calling set_frequency, once every call has         *)
(* returned, the frequency recorded for a channel corresponds to the last  *)
(* bus write issued for it: that write carries the register value of the   *)
(* recorded frequency (stated for runs where no write fails).              *)
(***************************************************************************)
C9_Serialized ==
    (phase = "ready" /\ Quiescent /\ \A i \in 1..Len(bus) : bus[i].ok) =>
        \A c \in Channels :
            Carried(bus[Last(AttemptedWrites(c))].data)
                = calculate_register_value(output_frequencies[c]) % 65536

(***************************************************************************)
(* C10 as stated: in sequential use, when no call is in progress, the last *)
(* payload accepted for the register of a channel whose recorded frequency *)
(* is not 0 carries the value the calculation gives for that frequency.    *)
(***************************************************************************)
C10_CarriesComputed ==
    (Constructed /\ Quiescent) =>
        \A c \in Channels : output_frequencies[c] # Zero =>
            /\ AcceptedWrites(c) # {}
            /\ Carried(bus[Last(AcceptedWrites(c))].data)
                  = calculate_register_value(output_frequencies[c])

(***************************************************************************)
(* C10 amended: ... carries the low 16 bits (the value modulo 65536) of    *)
(* what the calculation gives for that frequency, at register 0x10 + 2c;   *)
(* every write of set_frequency goes to 0x10, 0x12 or 0x14; and a call     *)
(* with a valid channel attempts exactly one bus write.                    *)
(***************************************************************************)
C10_CarriesLow16 ==
    /\ (Constructed /\ Quiescent) =>
          \A c \in Channels : output_frequencies[c] # Zero =>
              /\ AcceptedWrites(c) # {}
              /\ LET d == bus[Last(AcceptedWrites(c))].data
                 IN /\ d[1] = 16 + 2 * c
                    /\ Carried(d) = calculate_register_value(output_frequencies[c]) % 65536
    /\ \A i \in 1..Len(bus) : bus[i].channel # -1 =>
          /\ bus[i].data[1] \in {16, 18, 20}
          /\ bus[i].data[1] = 16 + 2 * bus[i].channel
    /\ \A t \in threads : (Called(t) /\ output_index[t] \in Channels) =>
          /\ Len(bus) <= entry[t].nbus + 1
          /\ pc[t] \in {"wr115", "sf84", "idle"} => Len(bus) = entry[t].nbus + 1

\* 65_836 MHz is recorded for channel 1 and register 0x12 was sent 300
C10_Witness ==
    /\ phase = "ready" /\ Quiescent /\ Len(bus) = 5
    /\ output_frequencies[1] = MHz(65836)
    /\ bus[5].data = <<18, 44, 1>> /\ bus[5].ok

====
